---- MODULE Spec2Model ----
(***************************************************************************)
(* Model of the JATOS data parsing tools: the word layout reconstruction   *)
(* (get_word_positions), the dwell-time aggregation                        *)
(* (compute_word_durations) and the export archive reorganisation          *)
(* (collect_data_files).                                                   *)
(*                                                                         *)
(* Strings are sequences of one-character strings.  Pixel quantities are   *)
(* integers (PIL's getbbox returns integers).  Timestamps and durations    *)
(* are fixed-point numbers counted in 1/1000 ms, so that the two-decimal   *)
(* rounding of the output is observable.                                   *)
(***************************************************************************)
EXTENDS Integers, Sequences, FiniteSets, TLC

\* ------------------------------------------------------------------ bounds

MaxTextLen == 4

\* Samples in one table of reading trials, all trials together.
MaxSamples == 3

\* Study results in an export archive, and component results in one of them.
MaxStudies == 2

MaxComps == 2

\* ------------------------------------------------------- module constants

LINE_HEIGHT == 25
HORIZONTAL_PADDING == 30
VERTICAL_PADDING_TOP == 20

\* ----------------------------------------------------------------- strings

Space == " "

Letters == {"a", "W"}

Alphabet == Letters \cup {Space}

RECURSIVE StringsUpTo(_)
StringsUpTo(n) ==
    IF n = 0 THEN {<<>>}
    ELSE LET shorter == StringsUpTo(n - 1)
         IN  shorter \cup {Append(s, c) : s \in {t \in shorter : Len(t) = n - 1}, c \in Alphabet}

TheCatSat == <<"t", "h", "e", " ", "c", "a", "t", " ", "s", "a", "t">>

Texts == StringsUpTo(MaxTextLen) \cup {TheCatSat}

\* --------------------------------------------------------------- the font

\* A font is a table of advance widths; "mono10" gives every character 10px,
\* "prop" is proportional with a narrow space and a wide W.
Fonts == {"mono10", "prop"}

CharWidth(f, c) ==
    IF f = "mono10" THEN 10
    ELSE IF c = Space THEN 4
    ELSE IF c = "W" THEN 30
    ELSE 8

\* bbox = font.getbbox(s); bbox[2] - bbox[0]
RECURSIVE TextWidth(_, _)
TextWidth(f, s) ==
    IF s = <<>> THEN 0
    ELSE CharWidth(f, Head(s)) + TextWidth(f, Tail(s))

\* -------------------------------------------------------------- str.split

FirstIndexOf(s, sep) ==
    IF \E k \in 1..Len(s) : s[k] = sep
    THEN CHOOSE k \in 1..Len(s) : s[k] = sep /\ \A j \in 1..(k - 1) : s[j] # sep
    ELSE 0

\* s.split(sep) for a one-character sep: every occurrence separates two
\* tokens, empty ones kept.
RECURSIVE SplitOn(_, _)
SplitOn(s, sep) ==
    LET k == FirstIndexOf(s, sep)
    IN  IF k = 0 THEN <<s>>
        ELSE <<SubSeq(s, 1, k - 1)>> \o SplitOn(SubSeq(s, k + 1, Len(s)), sep)

\* As text.split() would: runs of spaces separate tokens, no empty token.
RECURSIVE SplitSkippingEmpty(_)
SplitSkippingEmpty(s) ==
    LET k == FirstIndexOf(s, Space)
    IN  IF k = 0 THEN (IF s = <<>> THEN <<>> ELSE <<s>>)
        ELSE (IF k = 1 THEN <<>> ELSE <<SubSeq(s, 1, k - 1)>>)
             \o SplitSkippingEmpty(SubSeq(s, k + 1, Len(s)))

\* words = text.split(' ')
SplitOnSpace(s) == SplitOn(s, Space)

\* ------------------------------------------------------------------ state

VARIABLES
    \* get_word_positions: arguments
    text, canvas_width, font, horizontal_padding, vertical_padding_top, line_height,
    \* get_word_positions: locals
    words, word_positions, current_line_text, current_x, line_index,
    \* get_word_positions: position in the function ("call", "loop", "done")
    layout_pc,
    \* compute_word_durations: arguments (None is the empty set, a value v is {v})
    df_reading, arg_canvas_width, arg_text, arg_word_positions,
    \* compute_word_durations: locals
    tracking, word_durations, i,
    \* compute_word_durations: position ("call", "read", "init", "loop", "done",
    \* "raised"), the returned table and the exception raised
    dwell_pc, dwell_result, dwell_error,
    \* collect_data_files: the export archive as it was handed over
    archive,
    \* the file system under data_dir: the directories (paths) and the files
    \* (directory, name and content)
    fs_dirs, fs_files,
    \* collect_data_files: locals and position ("call", "rename", "move",
    \* "remove", "done")
    study_folders, s_idx, collect_pc,
    \* build_data: the raw file (its name and parsed rows) and the font
    raw, build_font,
    \* build_data: locals, position ("call", "loop", "done", "raised") and the
    \* exception raised
    reading_trials, trial, data, build_pc, build_error

layout_vars ==
    <<text, canvas_width, font, horizontal_padding, vertical_padding_top, line_height,
      words, word_positions, current_line_text, current_x, line_index, layout_pc>>

dwell_vars ==
    <<df_reading, arg_canvas_width, arg_text, arg_word_positions, tracking,
      word_durations, i, dwell_pc, dwell_result, dwell_error>>

collect_vars == <<archive, fs_dirs, fs_files, study_folders, s_idx, collect_pc>>

build_vars == <<raw, build_font, reading_trials, trial, data, build_pc, build_error>>

vars == <<layout_vars, dwell_vars, collect_vars, build_vars>>

\* What a step of one function leaves alone.
outside_layout == <<dwell_vars, collect_vars, build_vars>>

outside_dwell == <<layout_vars, collect_vars, build_vars>>

outside_collect == <<layout_vars, dwell_vars, build_vars>>

outside_build == <<layout_vars, dwell_vars, collect_vars>>

\* ------------------------------------------------------------------- None

None == {}

Some(v) == {v}

Get(o) == CHOOSE v \in o : TRUE

\* compute_word_durations has not been called.
DwellIdle ==
    /\ df_reading = <<>>
    /\ arg_canvas_width = None
    /\ arg_text = None
    /\ arg_word_positions = None
    /\ tracking = None
    /\ word_durations = <<>>
    /\ i = 0
    /\ dwell_pc = "idle"
    /\ dwell_result = <<>>
    /\ dwell_error = ""

\* collect_data_files has not been called.
CollectIdle ==
    /\ archive = [dirs |-> {}, files |-> {}]
    /\ fs_dirs = {}
    /\ fs_files = {}
    /\ study_folders = <<>>
    /\ s_idx = 0
    /\ collect_pc = "idle"

\* build_data has not been called.
BuildIdle ==
    /\ raw = [name |-> <<>>, rows |-> <<>>]
    /\ build_font = "mono10"
    /\ reading_trials = <<>>
    /\ trial = 0
    /\ data = <<>>
    /\ build_pc = "idle"
    /\ build_error = ""

\* get_word_positions has not been called.
LayoutIdle ==
    /\ text = <<>>
    /\ canvas_width = 0
    /\ font = "mono10"
    /\ horizontal_padding = HORIZONTAL_PADDING
    /\ vertical_padding_top = VERTICAL_PADDING_TOP
    /\ line_height = LINE_HEIGHT
    /\ words = <<>>
    /\ word_positions = <<>>
    /\ current_line_text = <<>>
    /\ current_x = 0
    /\ line_index = 0
    /\ layout_pc = "idle"

\* ------------------------------------------------------ get_word_positions

CanvasWidths == {45, 60, 200}

HorizontalPaddings == {HORIZONTAL_PADDING, 31}

VerticalPaddingsTop == {VERTICAL_PADDING_TOP, 0}

LineHeights == {LINE_HEIGHT, 30}

TextStartX(hp) == hp \div 2

TextStartY(vpt) == vpt + 10

\* The padding forgotten.
AvailableWidthUnpadded(cw, hp) == cw

AvailableWidth(cw, hp) == cw - hp

\* test_line = current_line_text + (' ' if current_line_text else '') + word
TestLine(cur, word) == cur \o (IF cur # <<>> THEN <<Space>> ELSE <<>>) \o word

\* The comparison made non-strict.
BreaksLineAtEqual(test_width, available_width, cur) ==
    test_width >= available_width /\ cur # <<>>

\* if test_width > available_width and current_line_text:
BreaksLine(test_width, available_width, cur) ==
    test_width > available_width /\ cur # <<>>

\* y_position = text_start_y + (line_index * LINE_HEIGHT): the module constant,
\* not the line_height argument (lh).
YPosition(text_start_y, li, lh) == text_start_y + (li * LINE_HEIGHT)

\* The space after the line so far left unmeasured.
WordXWithoutSpace(brk, cur, cx, f, hp) ==
    IF brk THEN TextStartX(hp)
    ELSE IF cur # <<>> THEN TextStartX(hp) + TextWidth(f, cur)
    ELSE cx

\* current_x for the word: reset on a line break, recomputed from the line so
\* far plus one space when the line is non-empty, otherwise left as it is.
WordX(brk, cur, cx, f, hp) ==
    IF brk THEN TextStartX(hp)
    ELSE IF cur # <<>> THEN TextStartX(hp) + TextWidth(f, cur \o <<Space>>)
    ELSE cx

WordBox(word, index, x, width, y, li) ==
    [word |-> word, word_index |-> index, x_start |-> x, x_end |-> x + width,
     y_position |-> y, line_index |-> li]

\* One iteration of "for word in words" on the locals st.
WordStep(st, word, f, cw, hp, vpt, lh) ==
    LET test_line  == TestLine(st.current_line_text, word)
        test_width == TextWidth(f, test_line)
        brk        == BreaksLine(test_width, AvailableWidth(cw, hp), st.current_line_text)
        li         == IF brk THEN st.line_index + 1 ELSE st.line_index
        x          == WordX(brk, st.current_line_text, st.current_x, f, hp)
        word_width == TextWidth(f, word)
        y_position == YPosition(TextStartY(vpt), li, lh)
    IN  [current_line_text |-> IF brk THEN word ELSE test_line,
         current_x         |-> x + word_width,
         line_index        |-> li,
         word_positions    |-> Append(st.word_positions,
                                      WordBox(word, Len(st.word_positions), x,
                                              word_width, y_position, li))]

LayoutStart(hp) ==
    [current_line_text |-> <<>>, current_x |-> TextStartX(hp), line_index |-> 0,
     word_positions |-> <<>>]

RECURSIVE LayoutFold(_, _, _, _, _, _, _)
LayoutFold(st, ws, f, cw, hp, vpt, lh) ==
    IF ws = <<>> THEN st
    ELSE LayoutFold(WordStep(st, Head(ws), f, cw, hp, vpt, lh), Tail(ws), f, cw, hp, vpt, lh)

\* The whole function, as its callers use it.
get_word_positions(t, cw, f, hp, vpt, lh) ==
    LayoutFold(LayoutStart(hp), SplitOnSpace(t), f, cw, hp, vpt, lh).word_positions

LayoutInit ==
    /\ text \in Texts
    /\ canvas_width \in CanvasWidths
    /\ font \in Fonts
    /\ horizontal_padding \in HorizontalPaddings
    /\ vertical_padding_top \in VerticalPaddingsTop
    /\ line_height \in LineHeights
    /\ words = <<>>
    /\ word_positions = <<>>
    /\ current_line_text = <<>>
    /\ current_x = 0
    /\ line_index = 0
    /\ layout_pc = "call"
    /\ DwellIdle
    /\ CollectIdle
    /\ BuildIdle

\* Lines 65-72: the function's prologue.
LayoutEnter ==
    /\ layout_pc = "call"
    /\ words' = SplitOnSpace(text)
    /\ word_positions' = LayoutStart(horizontal_padding).word_positions
    /\ current_line_text' = LayoutStart(horizontal_padding).current_line_text
    /\ current_x' = LayoutStart(horizontal_padding).current_x
    /\ line_index' = LayoutStart(horizontal_padding).line_index
    /\ layout_pc' = "loop"
    /\ UNCHANGED <<text, canvas_width, font, horizontal_padding, vertical_padding_top, line_height>>
    /\ UNCHANGED outside_layout

LayoutLocals ==
    [current_line_text |-> current_line_text, current_x |-> current_x,
     line_index |-> line_index, word_positions |-> word_positions]

NextWord == words[Len(word_positions) + 1]

\* Lines 74-101: one iteration of the loop over words.
LayoutWord ==
    /\ layout_pc = "loop"
    /\ Len(word_positions) < Len(words)
    /\ LET st == WordStep(LayoutLocals, NextWord, font, canvas_width,
                          horizontal_padding, vertical_padding_top, line_height)
       IN  /\ current_line_text' = st.current_line_text
           /\ current_x' = st.current_x
           /\ line_index' = st.line_index
           /\ word_positions' = st.word_positions
    /\ UNCHANGED <<text, canvas_width, font, horizontal_padding, vertical_padding_top,
                   line_height, words, layout_pc>>
    /\ UNCHANGED outside_layout

\* Line 103: return word_positions.
LayoutReturn ==
    /\ layout_pc = "loop"
    /\ Len(word_positions) = Len(words)
    /\ layout_pc' = "done"
    /\ UNCHANGED <<text, canvas_width, font, horizontal_padding, vertical_padding_top,
                   line_height, words, word_positions, current_line_text, current_x,
                   line_index>>
    /\ UNCHANGED outside_layout

LayoutNext == LayoutEnter \/ LayoutWord \/ LayoutReturn

SpecLayout == LayoutInit /\ [][LayoutNext]_vars

\* -------------------------------------------------- compute_word_durations

\* Defaults of the x_tolerance and y_tolerance parameters.
x_tolerance == 5

y_tolerance == 15

\* 1000 ms, the longest interval that is attributed, in 1/1000 ms.
MaxInterval == 1000 * 1000

\* Pointer positions: on the shared edge of two neighbouring word regions, and
\* one pixel to the right of it.
Points == {<<30, 45>>, <<31, 45>>}

\* Timestamps in 1/1000 ms: 0 ms, 1000 ms and 1000.004 ms.
Timestamps == {0, 1000000, 1000004}

Samples == {[x |-> p[1], y |-> p[2], timestamp |-> t] : p \in Points, t \in Timestamps}

RECURSIVE StreamsOfLen(_)
StreamsOfLen(n) ==
    IF n = 0 THEN {<<>>}
    ELSE {Append(s, m) : s \in StreamsOfLen(n - 1), m \in Samples}

Trial(stream) == [mouse_tracking_data |-> stream]

\* Tables of one or two reading trials holding at most MaxSamples samples.
SampleSplits == {ab \in (0..MaxSamples) \X (0..MaxSamples) : ab[1] + ab[2] <= MaxSamples}

ReadingTables ==
    UNION {{<<Trial(s)>> : s \in StreamsOfLen(n)} : n \in 0..MaxSamples}
    \cup UNION {{<<Trial(s1), Trial(s2)>> : s1 \in StreamsOfLen(ab[1]),
                                            s2 \in StreamsOfLen(ab[2])} : ab \in SampleSplits}

HasMouseData(row) == Len(row.mouse_tracking_data) > 0

\* mouse_data = df_reading[df_reading['mouse_tracking_data'].apply(len) > 0]
NonEmptyTrials(df) == SelectSeq(df, HasMouseData)

\* mouse_data["mouse_tracking_data"].iloc[trial_num] raises IndexError when
\* fewer than trial_num + 1 rows are left.
MouseDataRaises(df, trial_num) == trial_num >= Len(NonEmptyTrials(df))

get_mouse_data(df, trial_num) == NonEmptyTrials(df)[trial_num + 1].mouse_tracking_data

\* The limit itself taken for a gap.
SkippedAtLimit(dt) == dt <= 0 \/ dt >= MaxInterval

\* if dt <= 0 or dt > 1000: continue
Skipped(dt) == dt <= 0 \/ dt > MaxInterval

\* (x_start - x_tolerance) <= x <= (x_end + x_tolerance) and
\* (y_position - y_tolerance) <= y <= (y_position + y_tolerance)
Contains(wp, x, y) ==
    /\ (wp.x_start - x_tolerance) <= x
    /\ x <= (wp.x_end + x_tolerance)
    /\ (wp.y_position - y_tolerance) <= y
    /\ y <= (wp.y_position + y_tolerance)

\* The scan without its break: the last box that contains the point.
LastMatchedBox(wps, x, y) ==
    IF \E k \in 1..Len(wps) : Contains(wps[k], x, y)
    THEN CHOOSE k \in 1..Len(wps) :
            Contains(wps[k], x, y) /\ \A j \in (k + 1)..Len(wps) : ~Contains(wps[j], x, y)
    ELSE 0

\* for wp in word_positions: if <contains>: ...; break
\* The position of the box the scan stops at, 0 when it runs to the end.
MatchedBox(wps, x, y) ==
    IF \E k \in 1..Len(wps) : Contains(wps[k], x, y)
    THEN CHOOSE k \in 1..Len(wps) :
            Contains(wps[k], x, y) /\ \A j \in 1..(k - 1) : ~Contains(wps[j], x, y)
    ELSE 0

\* Lines 138-151: one iteration of "for i in range(n - 1)".
IntervalStep(wd, point, next_point, wps) ==
    LET dt == next_point.timestamp - point.timestamp
        m  == MatchedBox(wps, point.x, point.y)
    IN  IF Skipped(dt) \/ m = 0 THEN wd
        ELSE [wd EXCEPT ![wps[m].word_index] = @ + dt]

\* round(v, 2) of a value counted in 1/1000 ms: the nearest 1/100 ms, a tie
\* going to the even neighbour.
Round2(v) ==
    LET q == v \div 10
        r == v % 10
    IN  IF r < 5 THEN 10 * q
        ELSE IF r > 5 THEN 10 * (q + 1)
        ELSE IF q % 2 = 0 THEN 10 * q ELSE 10 * (q + 1)

\* Lines 127-135: the row of a word when there are fewer than two samples.
ZeroRow(wp) ==
    [word_number |-> wp.word_index, word |-> wp.word, duration_ms |-> 0,
     x_start |-> wp.x_start, x_end |-> wp.x_end, y_position |-> wp.y_position,
     line_number |-> wp.line_index]

\* Lines 155-163: the row of a word after the scan.  The positions are Python
\* ints, which round(v, 1) returns unchanged.
DurationRow(wp, wd) ==
    [word_number |-> wp.word_index, word |-> wp.word,
     duration_ms |-> Round2(wd[wp.word_index]),
     x_start |-> wp.x_start, x_end |-> wp.x_end, y_position |-> wp.y_position,
     line_number |-> wp.line_index]

\* The calls: the text and canvas width of a trial and the boxes laid out for
\* them, each argument possibly left out (None), the boxes possibly empty.
DwellTexts == {<<>>, <<"a", " ", "a">>}

DwellCanvasWidths == {45, 200}

DwellInit ==
    /\ LayoutIdle
    /\ CollectIdle
    /\ BuildIdle
    /\ df_reading \in ReadingTables
    /\ \E t \in DwellTexts, cw \in DwellCanvasWidths :
         /\ arg_canvas_width \in {None, Some(cw)}
         /\ arg_text \in {None, Some(t)}
         /\ arg_word_positions \in
              {None, Some(<<>>),
               Some(get_word_positions(t, cw, "mono10", HORIZONTAL_PADDING,
                                       VERTICAL_PADDING_TOP, LINE_HEIGHT))}
    /\ tracking = None
    /\ word_durations = <<>>
    /\ i = 0
    /\ dwell_pc = "call"
    /\ dwell_result = <<>>
    /\ dwell_error = ""

\* The check of word_positions left out.
ArgumentMissingBoxesUnchecked(cw, t, wps) == cw = None \/ t = None

\* if canvas_width is None / text is None / word_positions is None: raise
ArgumentMissing(cw, t, wps) == cw = None \/ t = None \/ wps = None

\* Lines 114-119: the argument checks.
DwellCheckArgs ==
    /\ dwell_pc = "call"
    /\ IF ArgumentMissing(arg_canvas_width, arg_text, arg_word_positions)
       THEN dwell_pc' = "raised" /\ dwell_error' = "ValueError"
       ELSE dwell_pc' = "read" /\ dwell_error' = dwell_error
    /\ UNCHANGED <<df_reading, arg_canvas_width, arg_text, arg_word_positions, tracking,
                   word_durations, i, dwell_result>>
    /\ UNCHANGED outside_dwell

\* Line 121: tracking = get_mouse_data(df_reading)
DwellGetMouseData ==
    /\ dwell_pc = "read"
    /\ IF MouseDataRaises(df_reading, 0)
       THEN /\ dwell_pc' = "raised"
            /\ dwell_error' = "IndexError"
            /\ tracking' = tracking
       ELSE /\ dwell_pc' = "init"
            /\ dwell_error' = dwell_error
            /\ tracking' = Some(get_mouse_data(df_reading, 0))
    /\ UNCHANGED <<df_reading, arg_canvas_width, arg_text, arg_word_positions,
                   word_durations, i, dwell_result>>
    /\ UNCHANGED outside_dwell

\* Lines 122-135: the accumulators, and the early return for n < 2.
DwellStart ==
    /\ dwell_pc = "init"
    /\ LET wps == Get(arg_word_positions)
           n   == Len(Get(tracking))
       IN  /\ word_durations' = [k \in 0..(Len(wps) - 1) |-> 0]
           /\ IF n < 2
              THEN /\ dwell_result' = [k \in 1..Len(wps) |-> ZeroRow(wps[k])]
                   /\ dwell_pc' = "done"
              ELSE /\ dwell_result' = dwell_result
                   /\ dwell_pc' = "loop"
    /\ i' = 0
    /\ UNCHANGED <<df_reading, arg_canvas_width, arg_text, arg_word_positions, tracking,
                   dwell_error>>
    /\ UNCHANGED outside_dwell

\* Lines 137-151: one pair of consecutive samples.
DwellInterval ==
    /\ dwell_pc = "loop"
    /\ i < Len(Get(tracking)) - 1
    /\ word_durations' = IntervalStep(word_durations, Get(tracking)[i + 1],
                                      Get(tracking)[i + 2], Get(arg_word_positions))
    /\ i' = i + 1
    /\ UNCHANGED <<df_reading, arg_canvas_width, arg_text, arg_word_positions, tracking,
                   dwell_pc, dwell_result, dwell_error>>
    /\ UNCHANGED outside_dwell

\* Lines 153-165: the table of rows.
DwellReturn ==
    /\ dwell_pc = "loop"
    /\ i = Len(Get(tracking)) - 1
    /\ LET wps == Get(arg_word_positions)
       IN  dwell_result' = [k \in 1..Len(wps) |-> DurationRow(wps[k], word_durations)]
    /\ dwell_pc' = "done"
    /\ UNCHANGED <<df_reading, arg_canvas_width, arg_text, arg_word_positions, tracking,
                   word_durations, i, dwell_error>>
    /\ UNCHANGED outside_dwell

DwellNext ==
    DwellCheckArgs \/ DwellGetMouseData \/ DwellStart \/ DwellInterval \/ DwellReturn

SpecDwell == DwellInit /\ [][DwellNext]_vars

\* -------------------------------------------------------------- build_data

\* Lines 122-165 of compute_word_durations on the stream it works on: the
\* scan from the k-th pair of samples on.
RECURSIVE ScanFrom(_, _, _, _)
ScanFrom(wd, trk, wps, k) ==
    IF k >= Len(trk) THEN wd
    ELSE ScanFrom(IntervalStep(wd, trk[k], trk[k + 1], wps), trk, wps, k + 1)

\* Lines 122-165: the table for the stream trk over the boxes wps.
DurationTable(trk, wps) ==
    IF Len(trk) < 2 THEN [k \in 1..Len(wps) |-> ZeroRow(wps[k])]
    ELSE LET wd == ScanFrom([k \in 0..(Len(wps) - 1) |-> 0], trk, wps, 1)
         IN  [k \in 1..Len(wps) |-> DurationRow(wps[k], wd)]

\* The whole function, as build_data calls it: the exception raised ("" for
\* none) and the table returned.
compute_word_durations(df, cw, t, wps) ==
    IF ArgumentMissing(cw, t, wps) THEN [error |-> "ValueError", table |-> <<>>]
    ELSE IF MouseDataRaises(df, 0) THEN [error |-> "IndexError", table |-> <<>>]
    ELSE [error |-> "", table |-> DurationTable(get_mouse_data(df, 0), Get(wps))]

\* return pathlib.Path(raw).name.split('_')[0]
get_participant_id(name) == SplitOn(name, "_")[1]

IsReading(row) == row.trial_type = "reading"

\* df[df['trial_type'] == 'reading']
get_reading_trials(df) == SelectSeq(df, IsReading)

\* Rows of a raw file: reading trials with their text, canvas and pointer
\* stream, and a row of another trial type.
ReadingRows(stream) ==
    {[trial_type |-> "reading", text_content |-> <<"a", " ", "a">>,
      canvas_width |-> cw, canvas_height |-> 100, mouse_tracking_data |-> stream] :
        cw \in DwellCanvasWidths}

OtherRow ==
    [trial_type |-> "instructions", text_content |-> <<>>, canvas_width |-> 0,
     canvas_height |-> 0, mouse_tracking_data |-> <<>>]

\* Raw files of one or two reading trials holding at most MaxSamples samples,
\* with or without a leading row of another type.
ReadingOnlyFiles ==
    UNION {{<<r>> : r \in UNION {ReadingRows(st) : st \in StreamsOfLen(n)}} : n \in 0..MaxSamples}
    \cup UNION {{<<r1, r2>> : r1 \in UNION {ReadingRows(st) : st \in StreamsOfLen(ab[1])},
                              r2 \in UNION {ReadingRows(st) : st \in StreamsOfLen(ab[2])}} :
                ab \in SampleSplits}

RawFileRows == ReadingOnlyFiles \cup {<<OtherRow>> \o rows : rows \in ReadingOnlyFiles}

RawName == <<"7", "_", "1", ".", "t", "x", "t">>

BuildInit ==
    /\ LayoutIdle
    /\ DwellIdle
    /\ CollectIdle
    /\ raw \in {[name |-> RawName, rows |-> rows] : rows \in RawFileRows}
    /\ build_font \in Fonts
    /\ reading_trials = <<>>
    /\ trial = 0
    /\ data = <<>>
    /\ build_pc = "call"
    /\ build_error = ""

\* Lines 185-204: the file is parsed and its reading trials selected.
BuildOpen ==
    /\ build_pc = "call"
    /\ reading_trials' = get_reading_trials(raw.rows)
    /\ trial' = 0
    /\ build_pc' = "loop"
    /\ UNCHANGED <<raw, build_font, data, build_error>>
    /\ UNCHANGED outside_build

\* Lines 207-222: the record of one reading trial.
TrialRecord(name, rt, k, f) ==
    LET cw   == rt[k + 1].canvas_width
        ch   == rt[k + 1].canvas_height
        tc   == rt[k + 1].text_content
        wps  == get_word_positions(tc, cw, f, HORIZONTAL_PADDING,
                                   VERTICAL_PADDING_TOP, LINE_HEIGHT)
    IN  [participant_id |-> get_participant_id(name),
         trial_num      |-> k,
         text_content   |-> tc,
         mouse_data     |-> get_mouse_data(rt, k),
         canvas_width   |-> cw,
         canvas_height  |-> ch,
         word_positions |-> wps,
         word_durations |-> compute_word_durations(rt, Some(cw), Some(tc), Some(wps)).table]

\* get_mouse_data(reading_trials, trial_num=trial) or the call of
\* compute_word_durations raises.
TrialRaises(rt, k) == MouseDataRaises(rt, k) \/ MouseDataRaises(rt, 0)

\* Lines 206-222: one iteration of "for trial in range(len(reading_trials))".
BuildTrial ==
    /\ build_pc = "loop"
    /\ trial < Len(reading_trials)
    /\ IF TrialRaises(reading_trials, trial)
       THEN /\ build_pc' = "raised"
            /\ build_error' = "IndexError"
            /\ UNCHANGED <<data, trial>>
       ELSE /\ data' = Append(data, TrialRecord(raw.name, reading_trials, trial, build_font))
            /\ trial' = trial + 1
            /\ UNCHANGED <<build_pc, build_error>>
    /\ UNCHANGED <<raw, build_font, reading_trials>>
    /\ UNCHANGED outside_build

\* Line 224: return data.
BuildReturn ==
    /\ build_pc = "loop"
    /\ trial = Len(reading_trials)
    /\ build_pc' = "done"
    /\ UNCHANGED <<raw, build_font, reading_trials, trial, data, build_error>>
    /\ UNCHANGED outside_build

BuildNext == BuildOpen \/ BuildTrial \/ BuildReturn

SpecBuild == BuildInit /\ [][BuildNext]_vars

\* ------------------------------------------------------ collect_data_files

\* Characters of file names in the order of their code points, which is the
\* order sorted() compares paths by.
CodePoints ==
    <<"-", ".", "0", "1", "2", "3", "4", "5", "6", "7", "8", "9", "_",
      "a", "c", "d", "e", "l", "m", "o", "p", "r", "s", "t", "u", "w", "x", "y">>

CodeOf(c) == CHOOSE k \in 1..Len(CodePoints) : CodePoints[k] = c

RECURSIVE LexLess(_, _)
LexLess(a, b) ==
    IF a = <<>> THEN b # <<>>
    ELSE IF b = <<>> THEN FALSE
    ELSE IF Head(a) = Head(b) THEN LexLess(Tail(a), Tail(b))
    ELSE CodeOf(Head(a)) < CodeOf(Head(b))

\* sorted(...) of a set of names.
RECURSIVE SortNames(_)
SortNames(S) ==
    IF S = {} THEN <<>>
    ELSE LET least == CHOOSE a \in S : \A b \in S \ {a} : LexLess(a, b)
         IN  <<least>> \o SortNames(S \ {least})

StartsWith(name, prefix) ==
    Len(name) >= Len(prefix) /\ SubSeq(name, 1, Len(prefix)) = prefix

EndsWith(name, suffix) ==
    Len(name) >= Len(suffix)
    /\ SubSeq(name, Len(name) - Len(suffix) + 1, Len(name)) = suffix

StudyPrefix == <<"s", "t", "u", "d", "y", "_", "r", "e", "s", "u", "l", "t", "_">>

CompPrefix == <<"c", "o", "m", "p", "-", "r", "e", "s", "u", "l", "t", "_">>

DataTxt == <<"d", "a", "t", "a", ".", "t", "x", "t">>

DotTxt == <<".", "t", "x", "t">>

RawData == <<"r", "a", "w", "_", "d", "a", "t", "a">>

DigitChars == <<"0", "1", "2", "3", "4", "5", "6", "7", "8", "9">>

\* str(n) of a natural number, as the f-string formats component_num.
RECURSIVE Decimal(_)
Decimal(n) ==
    IF n < 10 THEN <<DigitChars[n + 1]>>
    ELSE Decimal(n \div 10) \o <<DigitChars[(n % 10) + 1]>>

\* The participant left out of the name.
NewFilenameWithoutParticipant(participant_id, component_num) ==
    Decimal(component_num) \o DotTxt

\* new_filename = f"{participant_id}_{component_num}.txt"
NewFilename(participant_id, component_num) ==
    participant_id \o <<"_">> \o Decimal(component_num) \o DotTxt

\* participant_id = study_folder.name.split('_')[2]
ParticipantId(study_name) == SplitOn(study_name, "_")[3]

\* sorted([d for d in root_path.iterdir()
\*         if d.is_dir() and d.name.startswith('study_result_')])
ListStudyFolders(dirs) ==
    SortNames({d[1] : d \in {e \in dirs : Len(e) = 1 /\ StartsWith(e[1], StudyPrefix)}})

\* sorted([d for d in study_folder.iterdir()
\*         if d.is_dir() and d.name.startswith('comp-result_')])
ListCompFolders(dirs, study) ==
    SortNames({d[2] : d \in {e \in dirs : /\ Len(e) = 2
                                           /\ e[1] = study
                                           /\ StartsWith(e[2], CompPrefix)}})

File(dir, name, content) == [dir |-> dir, name |-> name, content |-> content]

\* A file put at dir/name, replacing the file that is there, as rename() and
\* shutil.move() do.
PutFile(files, dir, name, content) ==
    {f \in files : ~(f.dir = dir /\ f.name = name)} \cup {File(dir, name, content)}

\* Lines 56-67 for the k-th comp-result folder and those after it.
RECURSIVE RenameFrom(_, _, _, _)
RenameFrom(files, study, comps, k) ==
    IF k > Len(comps) THEN files
    ELSE LET dir  == <<study, comps[k]>>
             found == {f \in files : f.dir = dir /\ f.name = DataTxt}
         IN  IF found = {} THEN RenameFrom(files, study, comps, k + 1)
             ELSE LET f == CHOOSE g \in found : TRUE
                  IN  RenameFrom(PutFile(files \ {f}, dir,
                                         NewFilename(ParticipantId(study), k), f.content),
                                 study, comps, k + 1)

\* Lines 89-95 for the k-th comp-result folder and those after it: every .txt
\* file of the folder goes to raw_data under its own name.
RECURSIVE MoveFrom(_, _, _, _)
MoveFrom(files, study, comps, k) ==
    IF k > Len(comps) THEN files
    ELSE LET movers == {f \in files : f.dir = <<study, comps[k]>> /\ EndsWith(f.name, DotTxt)}
             kept   == {f \in files \ movers :
                          ~(f.dir = <<RawData>> /\ \E m \in movers : m.name = f.name)}
         IN  MoveFrom(kept \cup {File(<<RawData>>, m.name, m.content) : m \in movers},
                      study, comps, k + 1)

IsEmptyDir(dirs, files, dir) ==
    /\ ~\E f \in files : f.dir = dir
    /\ ~\E d \in dirs : Len(d) = Len(dir) + 1 /\ SubSeq(d, 1, Len(dir)) = dir

\* Lines 105-119: the empty comp-result folders of a study folder go, and then
\* the study folder if that leaves it empty.
RemoveEmpty(dirs, files, study) ==
    LET comps  == ListCompFolders(dirs, study)
        gone   == {<<study, comps[k]>> : k \in {j \in 1..Len(comps) :
                                                 IsEmptyDir(dirs, files, <<study, comps[j]>>)}}
        left   == dirs \ gone
    IN  IF IsEmptyDir(left, files, <<study>>) THEN left \ {<<study>>} ELSE left

\* Export archives: study_result_<id> folders holding comp-result_<id> folders,
\* each of which may hold a data.txt.
StudyIds == {<<"7">>, <<"1", "2">>, <<"1", "3">>}

CompIds == {<<"9">>, <<"1", "0">>, <<"1", "1">>}

StudyName(id) == StudyPrefix \o id

CompName(id) == CompPrefix \o id

Bounded(S, n) == {T \in SUBSET S : Cardinality(T) <= n}

CollectInit ==
    /\ LayoutIdle
    /\ DwellIdle
    /\ BuildIdle
    /\ \E studies \in Bounded(StudyIds, MaxStudies) :
         \E comps \in [studies -> Bounded(CompIds, MaxComps)] :
           \E with_data \in SUBSET {<<sid, cid>> : sid \in studies, cid \in CompIds} :
             /\ \A sc \in with_data : sc[2] \in comps[sc[1]]
             /\ fs_dirs = {<<StudyName(sid)>> : sid \in studies}
                          \cup {<<StudyName(sc[1]), CompName(sc[2])>> :
                                  sc \in {p \in studies \X CompIds : p[2] \in comps[p[1]]}}
             /\ fs_files = {File(<<StudyName(sc[1]), CompName(sc[2])>>, DataTxt,
                                 <<StudyName(sc[1]), CompName(sc[2])>>) : sc \in with_data}
    /\ archive = [dirs |-> fs_dirs, files |-> fs_files]
    /\ study_folders = <<>>
    /\ s_idx = 0
    /\ collect_pc = "call"

\* Lines 41-45: the study_result folders are listed.
CollectList ==
    /\ collect_pc = "call"
    /\ study_folders' = ListStudyFolders(fs_dirs)
    /\ s_idx' = 0
    /\ collect_pc' = "rename"
    /\ UNCHANGED <<archive, fs_dirs, fs_files>>
    /\ UNCHANGED outside_collect

\* Lines 47-67: the data.txt files of one study folder are renamed.
CollectRenameStudy ==
    /\ collect_pc = "rename"
    /\ s_idx < Len(study_folders)
    /\ LET study == study_folders[s_idx + 1]
       IN  fs_files' = RenameFrom(fs_files, study, ListCompFolders(fs_dirs, study), 1)
    /\ s_idx' = s_idx + 1
    /\ UNCHANGED <<archive, fs_dirs, study_folders, collect_pc>>
    /\ UNCHANGED outside_collect

\* Lines 72-80: raw_data is made and the study_result folders listed again.
CollectMakeRawData ==
    /\ collect_pc = "rename"
    /\ s_idx = Len(study_folders)
    /\ fs_dirs' = fs_dirs \cup {<<RawData>>}
    /\ study_folders' = ListStudyFolders(fs_dirs')
    /\ s_idx' = 0
    /\ collect_pc' = "move"
    /\ UNCHANGED <<archive, fs_files>>
    /\ UNCHANGED outside_collect

\* Lines 82-95: the .txt files of one study folder are moved to raw_data.
CollectMoveStudy ==
    /\ collect_pc = "move"
    /\ s_idx < Len(study_folders)
    /\ LET study == study_folders[s_idx + 1]
       IN  fs_files' = MoveFrom(fs_files, study, ListCompFolders(fs_dirs, study), 1)
    /\ s_idx' = s_idx + 1
    /\ UNCHANGED <<archive, fs_dirs, study_folders, collect_pc>>
    /\ UNCHANGED outside_collect

\* Lines 97-101: the moves are over, the removal of empty folders begins.
CollectStartRemoving ==
    /\ collect_pc = "move"
    /\ s_idx = Len(study_folders)
    /\ s_idx' = 0
    /\ collect_pc' = "remove"
    /\ UNCHANGED <<archive, fs_dirs, fs_files, study_folders>>
    /\ UNCHANGED outside_collect

\* Lines 103-119: the empty folders of one study folder are removed.
CollectRemoveStudy ==
    /\ collect_pc = "remove"
    /\ s_idx < Len(study_folders)
    /\ fs_dirs' = RemoveEmpty(fs_dirs, fs_files, study_folders[s_idx + 1])
    /\ s_idx' = s_idx + 1
    /\ UNCHANGED <<archive, fs_files, study_folders, collect_pc>>
    /\ UNCHANGED outside_collect

\* Line 121: the function ends.
CollectReturn ==
    /\ collect_pc = "remove"
    /\ s_idx = Len(study_folders)
    /\ collect_pc' = "done"
    /\ UNCHANGED <<archive, fs_dirs, fs_files, study_folders, s_idx>>
    /\ UNCHANGED outside_collect

CollectNext ==
    \/ CollectList
    \/ CollectRenameStudy
    \/ CollectMakeRawData
    \/ CollectMoveStudy
    \/ CollectStartRemoving
    \/ CollectRemoveStudy
    \/ CollectReturn

SpecCollect == CollectInit /\ [][CollectNext]_vars

\* ================================================================== claims

\* ------------------------------------------------------ get_word_positions

NumSpaces(s) == Cardinality({k \in 1..Len(s) : s[k] = Space})

RECURSIVE JoinBoxes(_)
JoinBoxes(wps) ==
    IF wps = <<>> THEN <<>>
    ELSE IF Len(wps) = 1 THEN wps[1].word
    ELSE wps[1].word \o <<Space>> \o JoinBoxes(Tail(wps))

IsWide(word) == TextWidth(font, word) > canvas_width - horizontal_padding

\* C6: when get_word_positions returns, there is one box per token of the text
\* split on single spaces: as many boxes as spaces plus one, the k-th box
\* carrying word_index k (from 0) and the k-th token, i.e. the box words hold no
\* space and joined by single spaces they give the text back.
C6_BoxPerToken ==
    layout_pc = "done" =>
        /\ Len(word_positions) = NumSpaces(text) + 1
        /\ \A k \in 1..Len(word_positions) :
             /\ word_positions[k].word_index = k - 1
             /\ \A c \in 1..Len(word_positions[k].word) : word_positions[k].word[c] # Space
        /\ JoinBoxes(word_positions) = text

\* A text with a doubled space has been laid out: the middle token is empty.
C6_Witness ==
    /\ layout_pc = "done"
    /\ Len(word_positions) = 3
    /\ word_positions[1].word # <<>>
    /\ word_positions[2].word = <<>>
    /\ word_positions[3].word # <<>>

\* C7: every box has y_position = vertical_padding_top + 10 + line_index *
\* line_height, with line_height the argument of the call.
C7_YFromLineHeightArgument ==
    \A k \in 1..Len(word_positions) :
        word_positions[k].y_position =
            vertical_padding_top + 10 + word_positions[k].line_index * line_height

LastLineIndex(wps) == IF wps = <<>> THEN 0 ELSE wps[Len(wps)].line_index

\* C8: line_index is 0 at the first box and never decreases along the boxes;
\* the box of a word is one line below the previous box exactly when the
\* current line is non-empty and the candidate line (current line, a space,
\* the word) is wider than canvas_width - horizontal_padding, and that box
\* starts at horizontal_padding // 2; otherwise it stays on the same line.
C8_LineBreaks ==
    /\ [](/\ Len(word_positions) > 0 => word_positions[1].line_index = 0
          /\ \A k \in 2..Len(word_positions) :
               word_positions[k].line_index >= word_positions[k - 1].line_index)
    /\ [][Len(word_positions') = Len(word_positions) + 1 =>
            LET box       == word_positions'[Len(word_positions')]
                candidate == current_line_text \o <<Space>> \o box.word
                breaks    == /\ current_line_text # <<>>
                             /\ TextWidth(font, candidate) > canvas_width - horizontal_padding
            IN  /\ breaks => /\ box.line_index = LastLineIndex(word_positions) + 1
                             /\ box.x_start = horizontal_padding \div 2
                /\ ~breaks => box.line_index = LastLineIndex(word_positions)]_vars

\* A word has been wrapped to the start of the second line and another word
\* placed after it on that line.
C8_Witness ==
    /\ layout_pc = "done"
    /\ Len(word_positions) = 3
    /\ word_positions[1].line_index = 0
    /\ word_positions[2].line_index = 1
    /\ word_positions[2].x_start = horizontal_padding \div 2
    /\ word_positions[3].line_index = 1
    /\ word_positions[3].x_start > word_positions[2].x_end

\* C10 as stated: a word wider than canvas_width - horizontal_padding has one
\* box and no other box, empty tokens included, shares its line_index.
C10_WideWordAlone ==
    layout_pc = "done" =>
        \A k \in 1..Len(word_positions) :
            IsWide(word_positions[k].word) =>
                /\ word_positions[k].word = words[k]
                /\ \A j \in 1..Len(word_positions) :
                     j # k => word_positions[j].line_index # word_positions[k].line_index

\* C10 amended: a word wider than canvas_width - horizontal_padding has one
\* box, holding the whole word, and the only boxes that share its line_index
\* are boxes of empty tokens that come before it; no box of a non-empty word
\* and no later box is on its line.
C10_WideWordAloneButEmpty ==
    layout_pc = "done" =>
        \A k \in 1..Len(word_positions) :
            IsWide(word_positions[k].word) =>
                /\ word_positions[k].word = words[k]
                /\ \A j \in 1..Len(word_positions) :
                     (j # k /\ word_positions[j].line_index = word_positions[k].line_index)
                        => (j < k /\ word_positions[j].word = <<>>)

\* A too-wide word after a leading space and before a further word: the empty
\* token shares the wide word's line, the further word does not.
C10_Witness ==
    /\ layout_pc = "done"
    /\ Len(word_positions) = 3
    /\ word_positions[1].word = <<>>
    /\ IsWide(word_positions[2].word)
    /\ word_positions[3].word # <<>>
    /\ word_positions[1].line_index = word_positions[2].line_index
    /\ word_positions[3].line_index = word_positions[2].line_index + 1

\* C11: the box of a word appended to a non-empty current line starts at
\* horizontal_padding // 2 + width(current line + ' '), measured as the
\* line-break test measures; the box of a word that starts a line (after a
\* break, or on a line that is still empty) starts at horizontal_padding // 2;
\* every box ends at x_start + width(word).  For 'the cat sat', canvas width
\* 200, 10px characters, paddings 30 and 20, line height 25: three boxes on
\* line 0, 'the' from 15 to 45, 'sat' from 95.
C11_WordStartAndEnd ==
    /\ []((/\ layout_pc = "done"
           /\ text = TheCatSat
           /\ canvas_width = 200
           /\ font = "mono10"
           /\ horizontal_padding = 30
           /\ vertical_padding_top = 20
           /\ line_height = 25) =>
              /\ Len(word_positions) = 3
              /\ \A k \in 1..3 : word_positions[k].line_index = 0
              /\ word_positions[1].word = <<"t", "h", "e">>
              /\ word_positions[1].x_start = 15
              /\ word_positions[1].x_end = 45
              /\ word_positions[3].word = <<"s", "a", "t">>
              /\ word_positions[3].x_start = 95)
    /\ [][Len(word_positions') = Len(word_positions) + 1 =>
            LET box       == word_positions'[Len(word_positions')]
                candidate == current_line_text \o <<Space>> \o box.word
                appended  == /\ current_line_text # <<>>
                             /\ TextWidth(font, candidate) <= canvas_width - horizontal_padding
            IN  /\ appended =>
                      box.x_start = (horizontal_padding \div 2)
                                    + TextWidth(font, current_line_text \o <<Space>>)
                /\ ~appended => box.x_start = horizontal_padding \div 2
                /\ box.x_end = box.x_start + TextWidth(font, box.word)]_vars

\* 'the cat sat' has been laid out on a canvas 200 wide with 10px characters:
\* 'cat' and 'sat' were appended to a non-empty line.
C11_Witness ==
    /\ layout_pc = "done"
    /\ text = TheCatSat
    /\ canvas_width = 200
    /\ font = "mono10"
    /\ horizontal_padding = 30
    /\ vertical_padding_top = 20
    /\ line_height = 25
    /\ Len(word_positions) = 3
    /\ word_positions[2].x_start = 55
    /\ word_positions[3].x_start = 95
    /\ word_positions[3].x_end = 125

\* -------------------------------------------------- compute_word_durations

ArgumentsGiven ==
    arg_canvas_width # None /\ arg_text # None /\ arg_word_positions # None

Returned == dwell_pc \in {"done", "raised"}

\* The tolerance-expanded region of a box, bounds included.
InRegion(wp, p) ==
    /\ p.x >= wp.x_start - x_tolerance
    /\ p.x <= wp.x_end + x_tolerance
    /\ p.y >= wp.y_position - y_tolerance
    /\ p.y <= wp.y_position + y_tolerance

\* C1: whatever the length of the trial's pointer stream (0 and 1 included),
\* a call given its arguments returns one row per word box, in box order, the
\* k-th row carrying the k-th box's word index, word and line index.
C1_RowPerBox ==
    (Returned /\ ArgumentsGiven) =>
        /\ dwell_pc = "done"
        /\ Len(dwell_result) = Len(Get(arg_word_positions))
        /\ \A k \in 1..Len(dwell_result) :
             /\ dwell_result[k].word_number = Get(arg_word_positions)[k].word_index
             /\ dwell_result[k].word = Get(arg_word_positions)[k].word
             /\ dwell_result[k].line_number = Get(arg_word_positions)[k].line_index

\* C2: a pair of consecutive samples with 0 < dt <= 1000 ms adds dt to the
\* duration of the first box, in box order, whose region contains the first
\* sample of the pair, and changes no other duration; no duration changes when
\* no region contains it.
C2_FirstBoxTakesInterval ==
    [][(dwell_pc = "loop" /\ i' = i + 1) =>
          LET wps  == Get(arg_word_positions)
              p    == Get(tracking)[i + 1]
              q    == Get(tracking)[i + 2]
              dt   == q.timestamp - p.timestamp
              hits == {k \in 1..Len(wps) : InRegion(wps[k], p)}
          IN  (dt > 0 /\ dt <= 1000 * 1000) =>
                \A k \in 1..Len(wps) :
                    word_durations'[wps[k].word_index] =
                        word_durations[wps[k].word_index]
                        + (IF k \in hits /\ \A j \in hits : k <= j THEN dt ELSE 0)]_vars

\* The first pair of samples lay in the regions of both the first and the
\* second box: the first box has its dt, the second has nothing.
C2_Witness ==
    /\ dwell_pc = "loop"
    /\ i = 1
    /\ Len(Get(arg_word_positions)) = 2
    /\ InRegion(Get(arg_word_positions)[1], Get(tracking)[1])
    /\ InRegion(Get(arg_word_positions)[2], Get(tracking)[1])
    /\ word_durations[0] = Get(tracking)[2].timestamp - Get(tracking)[1].timestamp
    /\ word_durations[0] > 0
    /\ word_durations[1] = 0

\* C3: a pair of consecutive samples with dt <= 0 or dt > 1000 ms changes no
\* duration and raises nothing, the scan going on to the next pair; a pair with
\* dt = 1000 ms whose first sample lies in a region does change a duration.
C3_GapSkipped ==
    [][(dwell_pc = "loop" /\ i' = i + 1) =>
          LET wps == Get(arg_word_positions)
              p   == Get(tracking)[i + 1]
              q   == Get(tracking)[i + 2]
              dt  == q.timestamp - p.timestamp
          IN  /\ (dt <= 0 \/ dt > 1000 * 1000) =>
                    /\ word_durations' = word_durations
                    /\ dwell_pc' = "loop"
                    /\ dwell_error' = ""
              /\ (dt = 1000 * 1000 /\ \E k \in 1..Len(wps) : InRegion(wps[k], p)) =>
                    word_durations' # word_durations]_vars

\* A stream of three samples has been processed to the end: its first interval
\* of exactly 1000 ms is in the table, its second, of no length or negative,
\* is not.
C3_Witness ==
    /\ dwell_pc = "done"
    /\ tracking # None
    /\ Len(Get(tracking)) = 3
    /\ Get(tracking)[2].timestamp - Get(tracking)[1].timestamp = 1000 * 1000
    /\ Get(tracking)[3].timestamp - Get(tracking)[2].timestamp <= 0
    /\ \E k \in 1..Len(dwell_result) : dwell_result[k].duration_ms = 1000 * 1000
    /\ \A k \in 1..Len(dwell_result) : dwell_result[k].duration_ms \in {0, 1000 * 1000}

\* C4: when the first reading trial's pointer stream has no sample or one
\* sample, a call given its arguments returns a row for every word box with
\* duration 0.0 (so the same table in both cases).
C4_FewSamplesAllZero ==
    (Returned /\ ArgumentsGiven /\ Len(df_reading[1].mouse_tracking_data) < 2) =>
        /\ dwell_pc = "done"
        /\ Len(dwell_result) = Len(Get(arg_word_positions))
        /\ \A k \in 1..Len(dwell_result) :
             /\ dwell_result[k].word_number = Get(arg_word_positions)[k].word_index
             /\ dwell_result[k].duration_ms = 0

\* C5 as stated: the call raises ValueError, before the pointer data is read
\* and with no table built, whenever canvas_width, text or word_positions is
\* None, the text is empty or the collection of boxes is empty.
C5_MissingOrEmptyRejected ==
    (dwell_pc # "call"
     /\ (~ArgumentsGiven \/ arg_text = Some(<<>>) \/ arg_word_positions = Some(<<>>))) =>
        /\ dwell_pc = "raised"
        /\ dwell_error = "ValueError"
        /\ tracking = None
        /\ dwell_result = <<>>

\* C5 amended: the call raises ValueError, before the pointer data is read and
\* with no table built, whenever canvas_width, text or word_positions is None,
\* and only then: an empty text or an empty collection of boxes is accepted.
C5_MissingRejected ==
    dwell_pc # "call" =>
        /\ ~ArgumentsGiven =>
              /\ dwell_pc = "raised"
              /\ dwell_error = "ValueError"
              /\ tracking = None
              /\ dwell_result = <<>>
        /\ ArgumentsGiven => dwell_error # "ValueError"

\* A call without word_positions, over a table that has pointer data, has
\* raised ValueError.
C5_Witness ==
    /\ dwell_pc = "raised"
    /\ dwell_error = "ValueError"
    /\ arg_word_positions = None
    /\ arg_canvas_width # None
    /\ arg_text # None
    /\ Len(df_reading[1].mouse_tracking_data) >= 2

\* ------------------------------------------------------ collect_data_files

RawFiles == {f \in fs_files : f.dir = <<RawData>>}

\* The 1-indexed place of a comp-result folder among the comp-result folders
\* the archive had in its study folder, by name.
PlaceInStudy(dir) ==
    1 + Cardinality({d \in archive.dirs :
                       Len(d) = 2 /\ d[1] = dir[1] /\ LexLess(d[2], dir[2])})

\* The <participant> of a study_result_<participant> folder.
ParticipantOf(dir) == SubSeq(dir[1], Len(StudyPrefix) + 1, Len(dir[1]))

\* C9: when collect_data_files has run, every data.txt the archive held in a
\* study_result_<participant>/comp-result_* folder is in raw_data as
\* <participant>_<n>.txt, n the place of its comp-result folder in the study
\* folder, and raw_data holds as many files as the archive held data files:
\* distinct files got distinct names and none was overwritten or lost.
C9_EveryDataFileCollected ==
    collect_pc = "done" =>
        /\ \A f \in archive.files :
             \E g \in RawFiles :
                 /\ g.content = f.content
                 /\ g.name = ParticipantOf(f.dir) \o <<"_">>
                             \o Decimal(PlaceInStudy(f.dir)) \o DotTxt
        /\ Cardinality(RawFiles) = Cardinality(archive.files)
        /\ \A g, h \in RawFiles : g.name = h.name => g = h

\* An archive of two study folders with three data files between them, one in
\* a second comp-result folder, has been collected.
C9_Witness ==
    /\ collect_pc = "done"
    /\ Cardinality(archive.files) = 3
    /\ Cardinality({f.dir[1] : f \in archive.files}) = 2
    /\ \E f \in archive.files : PlaceInStudy(f.dir) = 2
    /\ Cardinality(RawFiles) = 3

\* -------------------------------------------------------------- build_data

\* C12: build_data ends without an exception with one record per reading trial
\* of the raw file, trials with an empty pointer stream included, and the
\* record of the k-th reading trial is self-consistent: its text and canvas
\* dimensions are that trial's, its mouse_data is that trial's pointer stream,
\* and its word_durations are the durations of that same stream over the
\* record's word_positions.
C12_RecordsSelfConsistent ==
    build_pc \in {"done", "raised"} =>
        LET rt == get_reading_trials(raw.rows)
        IN  /\ build_pc = "done"
            /\ Len(data) = Len(rt)
            /\ \A k \in 1..Len(data) :
                 /\ data[k].text_content = rt[k].text_content
                 /\ data[k].canvas_width = rt[k].canvas_width
                 /\ data[k].canvas_height = rt[k].canvas_height
                 /\ data[k].mouse_data = rt[k].mouse_tracking_data
                 /\ data[k].word_durations =
                        DurationTable(rt[k].mouse_tracking_data, data[k].word_positions)

====
